---- MODULE Spec2Model ----
(***************************************************************************)
(* Model of kitty/open_actions.py: the open-actions rule compiler (parse), *)
(* the matcher (url_matches_criterion, url_matches_criteria,               *)
(* actions_for_url_from_list) and the cached loader (load_open_actions,    *)
(* actions_for_url).                                                       *)
(*                                                                         *)
(* A Python str is modelled as a sequence of one-character strings, so     *)
(* that strip, split, lower, startswith, endswith, urlparse, unquote and   *)
(* the pattern matchers are computed character by character.               *)
(***************************************************************************)
EXTENDS Integers, Sequences, FiniteSets, TLC

VARIABLES
    \* ---- parse(lines), run one line at a time (lines 32-64)
    lines,            \* the argument of parse: a sequence of lines
    p_pc,             \* "idle" | "loop" | "done"
    p_i,              \* number of lines consumed by the for loop
    match_criteria,   \* pending criteria (line 33)
    actions,          \* pending actions (line 34)
    yielded,          \* the OpenActions yielded so far
    errlog,           \* the lines handed to log_error by parse
    p_src,            \* the file the lines were read from, Absent if from none
    \* ---- actions_for_url_from_list(url, actions), run one block at a time
    m_url,            \* the url argument
    m_rules,          \* the actions argument (a tuple of OpenAction)
    m_pc,             \* "start" | "loop" | "yield" | "done"
    m_i,              \* index of the block the for loop of line 162 is at
    m_j,              \* index of the next action to yield (line 164)
    m_out,            \* the KeyActions yielded so far
    m_evaluated,      \* indices of the blocks handed to url_matches_criteria
    m_ncrit,          \* number of criteria evaluated in the last block tried
    m_raised,         \* TRUE when an exception left the generator
    m_compiled,       \* the RuleSet as parse built it
    m_prev,           \* the url of the lookup before this one, <<>> if none
    \* ---- the process: configuration file, lru_cache, last actions_for_url
    file,             \* [exists, text]: <config_dir>/open-actions.conf
    cache,            \* [cached, value]: the lru_cache of load_open_actions
    reads,            \* opens of the file since the last cache_clear
    loaded_from,      \* the file as it was when the cached value was built
    call,             \* the last actions_for_url call and what it did
    result,           \* what the last actions_for_url call yielded
    \* ---- history: an earlier run of parse and an earlier lookup
    h_compile,        \* [set, lines, rules, other]: lines and what they gave
    h_lookup          \* [set, url, rules, out, other]: a lookup and its output

parse_vars == <<lines, p_pc, p_i, match_criteria, actions, yielded, errlog, p_src>>
match_vars == <<m_url, m_rules, m_pc, m_i, m_j, m_out, m_evaluated, m_ncrit, m_raised,
               m_compiled, m_prev>>
proc_vars  == <<file, cache, reads, loaded_from, call, result>>
hist_vars  == <<h_compile, h_lookup>>
vars == <<lines, p_pc, p_i, match_criteria, actions, yielded, errlog, p_src,
          m_url, m_rules, m_pc, m_i, m_j, m_out, m_evaluated, m_ncrit, m_raised,
          m_compiled, m_prev,
          file, cache, reads, loaded_from, call, result,
          h_compile, h_lookup>>

(***************************************************************************)
(* Bounds                                                                  *)
(***************************************************************************)
\* lines in a text handed to parse
MaxLines == 3
\* lines in a text of several blocks handed to parse
MaxText == 5
\* blocks in a RuleSet handed to actions_for_url_from_list
MaxBlocks == 2
\* opens of the configuration file between two cache_clear calls
MaxReads == 3

(***************************************************************************)
(* str primitives                                                          *)
(***************************************************************************)
UpperCase == <<"A","B","C","D","E","F","G","H","I","J","K","L","M",
               "N","O","P","Q","R","S","T","U","V","W","X","Y","Z">>
LowerCase == <<"a","b","c","d","e","f","g","h","i","j","k","l","m",
               "n","o","p","q","r","s","t","u","v","w","x","y","z">>
Digits == <<"0","1","2","3","4","5","6","7","8","9">>

IsUpper(c) == \E k \in 1..26 : UpperCase[k] = c
IsLower(c) == \E k \in 1..26 : LowerCase[k] = c
IsDigit(c) == \E k \in 1..10 : Digits[k] = c
\* str.isspace for the whitespace of the model's alphabet
IsSpace(c) == c \in {" ", "\t", "\n", "\r"}

LowerChar(c) ==
    IF IsUpper(c) THEN LowerCase[CHOOSE k \in 1..26 : UpperCase[k] = c] ELSE c

\* str.lower
lower(s) == [k \in 1..Len(s) |-> LowerChar(s[k])]

RECURSIVE lstrip(_)
lstrip(s) == IF s # <<>> /\ IsSpace(Head(s)) THEN lstrip(Tail(s)) ELSE s

RECURSIVE rstrip(_)
rstrip(s) ==
    IF s # <<>> /\ IsSpace(s[Len(s)]) THEN rstrip(SubSeq(s, 1, Len(s) - 1)) ELSE s

\* str.strip()
strip(s) == rstrip(lstrip(s))

\* str.startswith
startswith(s, p) == Len(s) >= Len(p) /\ SubSeq(s, 1, Len(p)) = p

\* str.endswith
endswith(s, p) == Len(s) >= Len(p) /\ SubSeq(s, Len(s) - Len(p) + 1, Len(s)) = p

\* index of the first position of s holding a character of set cs, 0 if none
FindAny(s, cs) ==
    IF \E k \in 1..Len(s) : s[k] \in cs
    THEN CHOOSE k \in 1..Len(s) : s[k] \in cs /\ \A h \in 1..(k - 1) : s[h] \notin cs
    ELSE 0

\* str.split(maxsplit=1): at most two parts, split at the first whitespace run
split1(s) ==
    LET t == lstrip(s)
        w == FindAny(t, {" ", "\t", "\n", "\r"})
    IN  IF t = <<>> THEN <<>>
        ELSE IF w = 0 THEN <<t>>
        ELSE LET r == lstrip(SubSeq(t, w, Len(t)))
             IN  IF r = <<>> THEN <<SubSeq(t, 1, w - 1)>>
                 ELSE <<SubSeq(t, 1, w - 1), r>>

\* str.split(): all the whitespace-separated words
RECURSIVE split(_)
split(s) ==
    LET t == lstrip(s)
        w == FindAny(t, {" ", "\t", "\n", "\r"})
    IN  IF t = <<>> THEN <<>>
        ELSE IF w = 0 THEN <<t>>
        ELSE <<SubSeq(t, 1, w - 1)>> \o split(SubSeq(t, w, Len(t)))

\* str.split(sep) for a one-character separator
RECURSIVE splitOn(_, _)
splitOn(s, sep) ==
    LET w == FindAny(s, {sep})
    IN  IF w = 0 THEN <<s>>
        ELSE <<SubSeq(s, 1, w - 1)>> \o splitOn(SubSeq(s, w + 1, Len(s)), sep)

\* number of occurrences of character c in s
Count(s, c) == Cardinality({k \in 1..Len(s) : s[k] = c})

\* str.splitlines() for texts whose only line terminator is "\n"
splitlines(text) ==
    IF text = <<>> THEN <<>>
    ELSE LET parts == splitOn(text, "\n")
         IN  IF parts[Len(parts)] = <<>> THEN SubSeq(parts, 1, Len(parts) - 1)
             ELSE parts

\* iteration over an open text file: the lines with their terminator kept
FileLines(text) ==
    LET parts == splitlines(text)
    IN  [k \in 1..Len(parts) |->
            IF k < Len(parts) \/ (text # <<>> /\ text[Len(text)] = "\n")
            THEN parts[k] \o <<"\n">> ELSE parts[k]]

(***************************************************************************)
(* Data model (lines 22-29)                                                *)
(***************************************************************************)
K_action == <<"a","c","t","i","o","n">>
K_mime == <<"m","i","m","e">>
K_ext == <<"e","x","t">>
K_protocol == <<"p","r","o","t","o","c","o","l">>
K_file == <<"f","i","l","e">>
K_path == <<"p","a","t","h">>
K_url == <<"u","r","l">>
K_has_fragment == <<"h","a","s","_","f","r","a","g","m","e","n","t">>

\* the keys of line 56
CriterionKeys == {K_mime, K_ext, K_protocol, K_file, K_path, K_url, K_has_fragment}

MatchCriteria(type, value) == [type |-> type, value |-> value]

KeyAction(func, args) == [func |-> func, args |-> args]

OpenAction(mc, acs) == [match_criteria |-> mc, actions |-> acs]

\* one argument of a KeyAction: a str, or a value of another type whose
\* text is kept
StrArg(s) == [isstr |-> TRUE, text |-> s]
TypedArg(s) == [isstr |-> FALSE, text |-> s]

(***************************************************************************)
(* kitty.config.parse_key_action, run under                                *)
(* to_cmdline.filter_env_vars('URL', 'FILE_PATH', 'FILE', 'FRAGMENT'):     *)
(* the first word of the directive is the action name, the other words are *)
(* its arguments, kept verbatim (the four references are not resolved      *)
(* here); a word of digits is a typed (integer) argument.  A directive     *)
(* with an unterminated quote is bad syntax and gives None.                *)
(***************************************************************************)
NoAction == [ok |-> FALSE, value |-> KeyAction(<<>>, <<>>)]

IsNumber(w) == w # <<>> /\ \A k \in 1..Len(w) : IsDigit(w[k])

parse_key_action(rest) ==
    LET words == split(rest)
    IN  IF Count(rest, "\"") % 2 = 1 THEN NoAction
        ELSE [ok |-> TRUE,
              value |-> KeyAction(words[1],
                           [k \in 1..(Len(words) - 1) |->
                               IF IsNumber(words[k + 1]) THEN TypedArg(words[k + 1])
                               ELSE StrArg(words[k + 1])])]

(***************************************************************************)
(* parse (lines 32-64).  The state of the generator is the record          *)
(* [match_criteria, actions, yielded, errlog].                             *)
(***************************************************************************)
\* ParseStart for buffers that outlive the call (lists shared by all calls)
ParseStartKeepsBuffers ==
    [match_criteria |-> match_criteria, actions |-> actions,
     yielded |-> <<>>, errlog |-> <<>>]

\* lines 33-34: every call of parse starts from two new empty lists
ParseStart == [match_criteria |-> <<>>, actions |-> <<>>, yielded |-> <<>>, errlog |-> <<>>]

\* EmitIfComplete with "or" in place of "and"
EmitIfEither(st) ==
    IF st.match_criteria # <<>> \/ st.actions # <<>>
    THEN Append(st.yielded, OpenAction(st.match_criteria, st.actions))
    ELSE st.yielded

\* lines 41-42 and 63-64: a block is yielded only from two non-empty buffers
EmitIfComplete(st) ==
    IF st.match_criteria # <<>> /\ st.actions # <<>>
    THEN Append(st.yielded, OpenAction(st.match_criteria, st.actions))
    ELSE st.yielded

\* BlankLine that empties the buffers only when it yields a block
BlankLineKeepsIncomplete(st) ==
    IF st.match_criteria # <<>> /\ st.actions # <<>>
    THEN [st EXCEPT !.yielded = EmitIfComplete(st),
                    !.match_criteria = <<>>,
                    !.actions = <<>>]
    ELSE st

\* lines 40-45: a blank line is a block boundary
BlankLine(st) ==
    [st EXCEPT !.yielded = EmitIfComplete(st),
               !.match_criteria = <<>>,
               !.actions = <<>>]

\* CommentLine taking the comment for a block boundary
CommentLineIsBoundary(st) == BlankLine(st)

\* lines 38-39: a comment line is passed over
CommentLine(st) == st

\* lines 47-48: a line that does not split into key and rest is passed over
ShortLine(st, line) == st

\* lines 51-55: an action line
ActionLine(st, rest) ==
    LET x == parse_key_action(rest)
    IN  IF x.ok THEN [st EXCEPT !.actions = Append(st.actions, x.value)] ELSE st

\* CriterionLine storing the remainder as written for every key
CriterionLineVerbatim(st, key, rest) ==
    [st EXCEPT !.match_criteria = Append(st.match_criteria, MatchCriteria(key, rest))]

\* lines 56-59: a criterion line; the value is lower-cased unless the key is url
CriterionLine(st, key, rest) ==
    [st EXCEPT !.match_criteria =
        Append(st.match_criteria,
               MatchCriteria(key, IF key # K_url THEN lower(rest) ELSE rest))]

\* UnknownKeyLine taking the line for a block boundary
UnknownKeyLineResets(st, line) ==
    [st EXCEPT !.errlog = Append(st.errlog, line),
               !.match_criteria = <<>>,
               !.actions = <<>>]

\* UnknownKeyLine without the call of log_error
UnknownKeyLineSilent(st, line) == st

\* lines 60-61: an unrecognized key is reported with log_error
UnknownKeyLine(st, line) == [st EXCEPT !.errlog = Append(st.errlog, line)]

\* lines 37-61: the body of the for loop, for one line
ParseLine(st, rawline) ==
    LET line == strip(rawline)
        parts == split1(line)
    IN  IF startswith(line, <<"#">>) THEN CommentLine(st)
        ELSE IF line = <<>> THEN BlankLine(st)
        ELSE IF Len(parts) # 2 THEN ShortLine(st, line)
        ELSE LET key == lower(parts[1])
                 rest == parts[2]
             IN  IF key = K_action THEN ActionLine(st, rest)
                 ELSE IF key \in CriterionKeys THEN CriterionLine(st, key, rest)
                 ELSE UnknownKeyLine(st, line)

\* ParseEnd without the flush
ParseEndWithoutFlush(st) == st

\* lines 63-64: the flush at the end of the input
ParseEnd(st) == [st EXCEPT !.yielded = EmitIfComplete(st)]

\* the for loop of line 36 over the lines ls, then the flush; the state
\* after each line is computed before the next line is taken
RECURSIVE ParseFrom(_, _)
ParseFrom(st, ls) ==
    IF ls = <<>> THEN ParseEnd(st)
    ELSE CHOOSE r \in {ParseFrom(next, Tail(ls)) : next \in {ParseLine(st, Head(ls))}} : TRUE

\* tuple(parse(lines)): the whole generator run to its end
parse(ls) == ParseFrom(ParseStart, ls).yielded

(***************************************************************************)
(* urllib.parse.urlparse, unquote; posixpath.basename, splitext            *)
(***************************************************************************)
\* index of the last position of s holding character c, 0 if none
RFind(s, c) ==
    IF \E k \in 1..Len(s) : s[k] = c
    THEN CHOOSE k \in 1..Len(s) : s[k] = c /\ \A h \in (k + 1)..Len(s) : s[h] # c
    ELSE 0

\* urllib.parse.scheme_chars
IsSchemeChar(c) == IsUpper(c) \/ IsLower(c) \/ IsDigit(c) \/ c \in {"+", "-", "."}

\* urlsplit: the scheme is the text before the first ":" when it starts with
\* a letter and holds only scheme characters; it is returned lower-cased
SplitScheme(url) ==
    LET i == FindAny(url, {":"})
    IN  IF i > 1 /\ (IsUpper(url[1]) \/ IsLower(url[1]))
           /\ \A k \in 1..(i - 1) : IsSchemeChar(url[k])
        THEN [scheme |-> lower(SubSeq(url, 1, i - 1)), rest |-> SubSeq(url, i + 1, Len(url))]
        ELSE [scheme |-> <<>>, rest |-> url]

\* urlsplit: "//" introduces a netloc that runs to the first of "/", "?", "#"
SplitNetloc(u) ==
    IF startswith(u, <<"/", "/">>)
    THEN LET body == SubSeq(u, 3, Len(u))
             d == FindAny(body, {"/", "?", "#"})
         IN  IF d = 0 THEN [netloc |-> body, rest |-> <<>>]
             ELSE [netloc |-> SubSeq(body, 1, d - 1), rest |-> SubSeq(body, d, Len(body))]
    ELSE [netloc |-> <<>>, rest |-> u]

\* str.split(sep, 1) as the pair <<before, after>>; after is empty without sep
Partition(s, sep) ==
    LET i == FindAny(s, {sep})
    IN  IF i = 0 THEN <<s, <<>>>>
        ELSE <<SubSeq(s, 1, i - 1), SubSeq(s, i + 1, Len(s))>>

\* urlparse(url) for urls without whitespace, control characters and ";".
\* ok = FALSE stands for the ValueError("Invalid IPv6 URL") of urlsplit.
urlparse(url) ==
    LET s == SplitScheme(url)
        n == SplitNetloc(s.rest)
        f == Partition(n.rest, "#")
        q == Partition(f[1], "?")
        bad == (Count(n.netloc, "[") > 0) # (Count(n.netloc, "]") > 0)
    IN  [ok |-> ~bad, scheme |-> s.scheme, netloc |-> n.netloc,
         path |-> q[1], query |-> q[2], fragment |-> f[2]]

HexDigits == <<"0","1","2","3","4","5","6","7","8","9","a","b","c","d","e","f">>
IsHex(c) == \E k \in 1..16 : HexDigits[k] = LowerChar(c)
HexVal(c) == (CHOOSE k \in 1..16 : HexDigits[k] = LowerChar(c)) - 1

\* the characters of codes 32..95 followed by those of codes 97..126
Printable == <<" ","!","\"","#","$","%","&","'","(",")","*","+",",","-",".","/",
               "0","1","2","3","4","5","6","7","8","9",":",";","<","=",">","?",
               "@","A","B","C","D","E","F","G","H","I","J","K","L","M","N","O",
               "P","Q","R","S","T","U","V","W","X","Y","Z","[","\\","]","^","_",
               "a","b","c","d","e","f","g","h","i","j","k","l","m","n","o",
               "p","q","r","s","t","u","v","w","x","y","z","{","|","}","~">>

\* the character of a code of 32..126 other than 96
Chr(code) == IF code < 96 THEN Printable[code - 31] ELSE Printable[code - 32]

\* urllib.parse.unquote for escapes of printable ASCII characters (other
\* than code 96): %XX is replaced by the character of code XX, anything
\* else is kept
RECURSIVE unquote(_)
unquote(s) ==
    IF s = <<>> THEN <<>>
    ELSE IF Head(s) = "%" /\ Len(s) >= 3 /\ IsHex(s[2]) /\ IsHex(s[3])
            /\ 16 * HexVal(s[2]) + HexVal(s[3]) \in (32..126) \ {96}
         THEN <<Chr(16 * HexVal(s[2]) + HexVal(s[3]))>>
              \o unquote(SubSeq(s, 4, Len(s)))
         ELSE <<Head(s)>> \o unquote(Tail(s))

\* posixpath.basename
basename(p) == SubSeq(p, RFind(p, "/") + 1, Len(p))

\* posixpath.splitext(p)[1]: the extension with its dot; a name made of
\* leading dots only has none
splitext(p) ==
    LET sep == RFind(p, "/")
        dot == RFind(p, ".")
    IN  IF dot > sep /\ \E k \in (sep + 1)..(dot - 1) : p[k] # "."
        THEN SubSeq(p, dot, Len(p)) ELSE <<>>

(***************************************************************************)
(* re, fnmatch, mimetypes: the parts of them the criteria use              *)
(***************************************************************************)
RECURSIVE NumValue(_)
NumValue(ds) ==
    IF ds = <<>> THEN 0
    ELSE 10 * NumValue(SubSeq(ds, 1, Len(ds) - 1))
         + ((CHOOSE k \in 1..10 : Digits[k] = ds[Len(ds)]) - 1)

\* s starts with a repeat "{digits}"; its length, 0 if it does not
RepeatLen(s) ==
    LET close == FindAny(s, {"}"})
    IN  IF s # <<>> /\ Head(s) = "{" /\ close > 2
           /\ \A k \in 2..(close - 1) : IsDigit(s[k])
        THEN close ELSE 0

\* sre_parse: a repeat count of MAXREPEAT (4294967295) or more is an
\* OverflowError.  Counts of the model have at most 9 digits (below
\* MAXREPEAT) or at least 11 digits with a non-zero first one (above it).
RECURSIVE HasOverflowRepeat(_)
HasOverflowRepeat(p) ==
    IF p = <<>> THEN FALSE
    ELSE LET n == RepeatLen(p)
         IN  IF n > 0
             THEN (n - 2 >= 11 /\ p[2] # "0") \/ HasOverflowRepeat(SubSeq(p, n + 1, Len(p)))
             ELSE HasOverflowRepeat(Tail(p))

\* re.compile(p) for patterns made of literal characters, ".", a repeat
\* "{n}" after a character, and "(" without its ")": "ok", "error" for
\* re.error (missing parenthesis), "OverflowError"
re_compile(p) ==
    IF HasOverflowRepeat(p) THEN "OverflowError"
    ELSE IF Count(p, "(") > 0 THEN "error"
    ELSE "ok"

\* the compiled pattern matches s from position pos on
RECURSIVE ReMatchAt(_, _, _)
ReMatchAt(p, s, pos) ==
    IF p = <<>> THEN TRUE
    ELSE LET n == RepeatLen(Tail(p))
             cnt == IF n > 0 THEN NumValue(SubSeq(p, 3, n)) ELSE 1
             rest == IF n > 0 THEN SubSeq(p, n + 2, Len(p)) ELSE Tail(p)
         IN  /\ pos + cnt - 1 <= Len(s)
             /\ \A k \in pos..(pos + cnt - 1) :
                    IF Head(p) = "." THEN s[k] # "\n" ELSE s[k] = Head(p)
             /\ ReMatchAt(rest, s, pos + cnt)

\* pat.search(s) is not None
re_search(p, s) == \E pos \in 1..(Len(s) + 1) : ReMatchAt(p, s, pos)

\* fnmatch.fnmatchcase(name, pat) for patterns of literal characters, "*"
\* and "?"
RECURSIVE fnmatchcase(_, _)
fnmatchcase(name, pat) ==
    IF pat = <<>> THEN name = <<>>
    ELSE IF Head(pat) = "*"
         THEN \E k \in 0..Len(name) : fnmatchcase(SubSeq(name, k + 1, Len(name)), Tail(pat))
    ELSE /\ name # <<>>
         /\ (Head(pat) = "?" \/ Head(pat) = Head(name))
         /\ fnmatchcase(Tail(name), Tail(pat))

\* mimetypes: the suffixes of encodings_map that are modelled; the map is
\* looked up with the suffix as written
EncodingSuffixes == {<<".","g","z">>, <<".","Z">>}

\* mimetypes.guess_type(path)[0] with the default tables: a suffix found in
\* encodings_map is taken off, then the type of the lower-cased extension
\* is looked up in the types map, <<>> for None.  Three entries of the
\* types map are modelled.
guess_type(path) ==
    LET suffix == splitext(path)
        base == SubSeq(path, 1, Len(path) - Len(suffix))
        ext == lower(IF suffix \in EncodingSuffixes THEN splitext(base) ELSE suffix)
    IN  IF ext = <<".","h","t","m","l">> THEN <<"t","e","x","t","/","h","t","m","l">>
        ELSE IF ext = <<".","p","n","g">> THEN <<"i","m","a","g","e","/","p","n","g">>
        ELSE IF ext = <<".","t","x","t">> THEN <<"t","e","x","t","/","p","l","a","i","n">>
        ELSE <<>>

\* kitty.conf.utils.to_bool: the boolean reading of a string
to_bool(x) ==
    lower(x) \in {<<"y">>, <<"y","e","s">>, <<"t","r","u","e">>, <<"1">>}

(***************************************************************************)
(* url_matches_criterion (lines 67-130).  The outcome is "True", "False",  *)
(* "None" (no branch taken) or "raise" (an exception leaves the function). *)
(***************************************************************************)
Bool(b) == IF b THEN "True" ELSE "False"

\* the items of value.split(','), each stripped
Items(value) ==
    LET parts == splitOn(value, ",")
    IN  [k \in 1..Len(parts) |-> strip(parts[k])]

\* lines 68-74
MatchUrl(url, value) ==
    LET c == re_compile(value)
    IN  IF c = "error" THEN "False"
        ELSE IF c = "OverflowError" THEN "raise"
        ELSE Bool(re_search(value, url))

\* lines 76-91
MatchMime(purl, value) ==
    LET mt == guess_type(purl.path)
        pats == Items(value)
    IN  IF mt = <<>> THEN "False"
        ELSE Bool(\E k \in 1..Len(pats) : fnmatchcase(lower(mt), pats[k]))

\* lines 93-101
MatchExt(purl, value) ==
    LET exts == Items(value)
    IN  IF purl.path = <<>> THEN "False"
        ELSE Bool(\E k \in 1..Len(exts) : endswith(lower(purl.path), <<".">> \o exts[k]))

\* MatchProtocol without the default of file for a url without scheme
MatchProtocolWithoutDefault(purl, value) ==
    LET keys == Items(value)
    IN  Bool(\E k \in 1..Len(keys) : keys[k] = lower(purl.scheme))

\* lines 103-108
MatchProtocol(purl, value) ==
    LET protocol == lower(IF purl.scheme # <<>> THEN purl.scheme ELSE K_file)
        keys == Items(value)
    IN  Bool(\E k \in 1..Len(keys) : keys[k] = protocol)

\* MatchHasFragment that does not read the value
MatchHasFragmentAnyValue(purl, value) == Bool(purl.fragment # <<>>)

\* lines 110-111
MatchHasFragment(purl, value) == Bool(to_bool(value) = (purl.fragment # <<>>))

\* lines 113-118
MatchPath(purl, value) == Bool(fnmatchcase(lower(purl.path), value))

\* lines 120-130
MatchFile(purl, value) == Bool(fnmatchcase(lower(basename(purl.path)), value))

url_matches_criterion(purl, url, mc) ==
    IF mc.type = K_url THEN MatchUrl(url, mc.value)
    ELSE IF mc.type = K_mime THEN MatchMime(purl, mc.value)
    ELSE IF mc.type = K_ext THEN MatchExt(purl, mc.value)
    ELSE IF mc.type = K_protocol THEN MatchProtocol(purl, mc.value)
    ELSE IF mc.type = K_has_fragment THEN MatchHasFragment(purl, mc.value)
    ELSE IF mc.type = K_path THEN MatchPath(purl, mc.value)
    ELSE IF mc.type = K_file THEN MatchFile(purl, mc.value)
    ELSE "None"

(***************************************************************************)
(* url_matches_criteria (lines 133-140)                                    *)
(***************************************************************************)
\* CriterionVerdict without the except clause of line 138
CriterionVerdictPropagates(outcome) ==
    IF outcome = "True" THEN "next"
    ELSE IF outcome = "raise" THEN "raise"
    ELSE "False"

\* lines 135-139 for one criterion: "next" goes on with the loop, "False"
\* returns False; an exception is caught and returns False
CriterionVerdict(outcome) ==
    IF outcome = "True" THEN "next"
    ELSE IF outcome = "raise" THEN "False"
    ELSE "False"

\* the loop from criterion k on: result is "True", "False" or "raise", n is
\* the number of criteria that were evaluated
RECURSIVE CriteriaFrom(_, _, _, _)
CriteriaFrom(purl, url, criteria, k) ==
    IF k > Len(criteria) THEN [result |-> "True", n |-> k - 1]
    ELSE LET v == CriterionVerdict(url_matches_criterion(purl, url, criteria[k]))
         IN  IF v = "next" THEN CriteriaFrom(purl, url, criteria, k + 1)
             ELSE [result |-> v, n |-> k]

url_matches_criteria(purl, url, criteria) == CriteriaFrom(purl, url, criteria, 1)

(***************************************************************************)
(* actions_for_url_from_list (lines 143-166)                               *)
(***************************************************************************)
N_URL == <<"U","R","L">>
N_FILE_PATH == <<"F","I","L","E","_","P","A","T","H">>
N_FILE == <<"F","I","L","E">>
N_FRAGMENT == <<"F","R","A","G","M","E","N","T">>

\* Env taking the values from the lower-cased, still quoted path
EnvOfMatchedPath(url, purl) ==
    [URL |-> url,
     FILE_PATH |-> lower(purl.path),
     FILE |-> basename(lower(purl.path)),
     FRAGMENT |-> purl.fragment]

\* lines 148-155
Env(url, purl) ==
    [URL |-> url,
     FILE_PATH |-> unquote(purl.path),
     FILE |-> basename(unquote(purl.path)),
     FRAGMENT |-> purl.fragment]

EnvHas(name) == name \in {N_URL, N_FILE_PATH, N_FILE, N_FRAGMENT}

EnvGet(env, name) ==
    IF name = N_URL THEN env.URL
    ELSE IF name = N_FILE_PATH THEN env.FILE_PATH
    ELSE IF name = N_FILE THEN env.FILE
    ELSE env.FRAGMENT

\* kitty.utils.expandvars(x, env, fallback_to_os_env=False): every reference
\* ${NAME} whose NAME is in env is replaced by its value; a reference to
\* another name stays as written
RECURSIVE expandvars(_, _)
expandvars(x, env) ==
    IF x = <<>> THEN <<>>
    ELSE LET close == FindAny(x, {"}"})
         IN  IF startswith(x, <<"$", "{">>) /\ close > 3
             THEN (IF EnvHas(SubSeq(x, 3, close - 1))
                   THEN EnvGet(env, SubSeq(x, 3, close - 1))
                   ELSE SubSeq(x, 1, close))
                  \o expandvars(SubSeq(x, close + 1, Len(x)), env)
             ELSE <<Head(x)>> \o expandvars(Tail(x), env)

\* lines 157-160
expand(x, env) == IF x.isstr THEN StrArg(expandvars(x.text, env)) ELSE x

\* line 165: ac._replace(args=tuple(map(expand, ac.args))), the new KeyAction
Invoke(ac, env) == KeyAction(ac.func, [k \in 1..Len(ac.args) |-> expand(ac.args[k], env)])

\* TemplateAfterReplace for a template whose args are overwritten in place
TemplateReplacedInPlace(ac, env) == Invoke(ac, env)

\* line 165: what _replace leaves in the template it is called on (a
\* NamedTuple builds a new tuple, the template keeps its fields)
TemplateAfterReplace(ac, env) == ac

(***************************************************************************)
(* The generator as a machine.  Its state is the record                    *)
(* [url, rules, pc, i, j, out, evaluated, ncrit, raised]: pc is "start"    *)
(* before line 144, "loop" at the for of line 162, "yield" inside the for  *)
(* of line 164, "done" when the generator has ended.                       *)
(***************************************************************************)
MatchStart(url, rules) ==
    [url |-> url, rules |-> rules, pc |-> "start", i |-> 0, j |-> 0,
     out |-> <<>>, evaluated |-> <<>>, ncrit |-> 0, raised |-> FALSE]

\* TryUrlparse without the except clause of line 146
TryUrlparseUncaught(url) ==
    LET purl == urlparse(url)
    IN  [purl |-> purl, status |-> IF purl.ok THEN "ok" ELSE "raise"]

\* lines 144-147: the ValueError of urlparse is caught and ends the
\* generator ("return"); "raise" would let it reach the caller
TryUrlparse(url) ==
    LET purl == urlparse(url)
    IN  [purl |-> purl, status |-> IF purl.ok THEN "ok" ELSE "return"]

\* lines 144-155
StepStart(st) ==
    LET t == TryUrlparse(st.url)
    IN  IF t.status = "ok" THEN [st EXCEPT !.pc = "loop", !.i = 1]
        ELSE [st EXCEPT !.pc = "done", !.raised = (t.status = "raise")]

\* line 162 when the blocks are exhausted
StepExhausted(st) == [st EXCEPT !.pc = "done"]

\* lines 162-163: block i is handed to url_matches_criteria
StepEvaluate(st) ==
    LET r == url_matches_criteria(urlparse(st.url), st.url, st.rules[st.i].match_criteria)
        seen == [st EXCEPT !.evaluated = Append(st.evaluated, st.i), !.ncrit = r.n]
    IN  IF r.result = "True" THEN [seen EXCEPT !.pc = "yield", !.j = 1]
        ELSE IF r.result = "raise" THEN [seen EXCEPT !.pc = "done", !.raised = TRUE]
        ELSE [seen EXCEPT !.i = st.i + 1]

\* lines 164-165: the next action of the matched block is yielded
StepYield(st) ==
    LET env == Env(st.url, urlparse(st.url))
        ac == st.rules[st.i].actions[st.j]
    IN  [st EXCEPT !.out = Append(st.out, Invoke(ac, env)),
                   !.rules[st.i].actions[st.j] = TemplateAfterReplace(ac, env),
                   !.j = st.j + 1]

\* StepReturn without the return: the for loop of line 162 goes on
StepReturnGoesOn(st) == [st EXCEPT !.pc = "loop", !.i = st.i + 1]

\* line 166: return after the actions of the matched block
StepReturn(st) == [st EXCEPT !.pc = "done"]

MatchStep(st) ==
    IF st.pc = "start" THEN StepStart(st)
    ELSE IF st.pc = "loop"
         THEN (IF st.i > Len(st.rules) THEN StepExhausted(st) ELSE StepEvaluate(st))
    ELSE IF st.pc = "yield"
         THEN (IF st.j > Len(st.rules[st.i].actions) THEN StepReturn(st) ELSE StepYield(st))
    ELSE st

\* the machine run to its end, one step after the other
RECURSIVE MatchRun(_)
MatchRun(st) ==
    IF st.pc = "done" THEN st
    ELSE CHOOSE r \in {MatchRun(next) : next \in {MatchStep(st)}} : TRUE

\* the whole generator, run to its end: out is what it yielded, raised
\* tells that an exception reached the caller, rules is the RuleSet after it
actions_for_url_from_list(url, rules) ==
    CHOOSE r \in {MatchRun(st) : st \in {MatchStart(url, rules)}} : TRUE

(***************************************************************************)
(* Values of the variables of a part of the program that is not running    *)
(***************************************************************************)
ParseIdle ==
    /\ lines = <<>> /\ p_pc = "idle" /\ p_i = 0
    /\ match_criteria = <<>> /\ actions = <<>> /\ yielded = <<>> /\ errlog = <<>>
    /\ p_src = [exists |-> FALSE, text |-> <<>>]

MatchIdle ==
    /\ m_url = <<>> /\ m_rules = <<>> /\ m_pc = "idle" /\ m_i = 0 /\ m_j = 0
    /\ m_out = <<>> /\ m_evaluated = <<>> /\ m_ncrit = 0 /\ m_raised = FALSE
    /\ m_compiled = <<>> /\ m_prev = <<>>

NoCall ==
    [kind |-> "none", url |-> <<>>, spec |-> <<>>, opened |-> FALSE, raised |-> FALSE,
     hit |-> FALSE, changed |-> FALSE, seq |-> 0]

ProcIdle ==
    /\ file = [exists |-> FALSE, text |-> <<>>]
    /\ cache = [cached |-> FALSE, value |-> <<>>]
    /\ reads = 0
    /\ loaded_from = [exists |-> FALSE, text |-> <<>>]
    /\ call = NoCall
    /\ result = <<>>

NoCompile == [set |-> FALSE, lines |-> <<>>, rules |-> <<>>, other |-> FALSE]

NoLookup == [set |-> FALSE, url |-> <<>>, rules |-> <<>>, out |-> <<>>, other |-> FALSE]

HistIdle == h_compile = NoCompile /\ h_lookup = NoLookup

\* all the sequences over set S of length at most n
SeqsUpTo(S, n) == UNION {[1..k -> S] : k \in 0..n}

(***************************************************************************)
(* SpecParse: parse(lines) run line by line on every text of at most       *)
(* MaxLines lines taken from SampleLines                                   *)
(***************************************************************************)
L_blank == <<>>
L_space == <<" ","\t","\n">>
L_comment == <<" ","#"," ","e","x","t"," ","x">>
L_ext == <<"e","x","t"," ","h","t","m","l","\n">>
L_ext_upper == <<"E","x","t"," "," ","H","T","M","L">>
L_url == <<"u","r","l"," ","A",".","c">>
L_action == <<"a","c","t","i","o","n"," ","o","p","e","n"," ","$","{","U","R","L","}">>
L_action_upper == <<"A","C","T","I","O","N"," ","v","i","e","w"," ","7","\n">>
L_action_bad == <<"a","c","t","i","o","n"," ","o"," ","\"","x">>
L_bogus == <<"b","o","g","u","s"," ","f","o","o">>
L_ext_only == <<"e","x","t">>
L_action_only == <<"a","c","t","i","o","n","\n">>

SampleLines ==
    {L_blank, L_space, L_comment, L_ext, L_ext_upper, L_url, L_action,
     L_action_upper, L_action_bad, L_bogus, L_ext_only, L_action_only}

ParseState ==
    [match_criteria |-> match_criteria, actions |-> actions,
     yielded |-> yielded, errlog |-> errlog]

InitParse ==
    /\ lines \in SeqsUpTo(SampleLines, MaxLines)
    /\ p_pc = "loop" /\ p_i = 0
    /\ match_criteria = <<>> /\ actions = <<>> /\ yielded = <<>> /\ errlog = <<>>
    /\ p_src = [exists |-> FALSE, text |-> <<>>]
    /\ MatchIdle /\ ProcIdle /\ HistIdle

\* one turn of the for loop of line 36
ParseStep ==
    /\ p_pc = "loop" /\ p_i < Len(lines)
    /\ LET st == ParseLine(ParseState, lines[p_i + 1])
       IN  /\ match_criteria' = st.match_criteria
           /\ actions' = st.actions
           /\ yielded' = st.yielded
           /\ errlog' = st.errlog
    /\ p_i' = p_i + 1
    /\ UNCHANGED <<lines, p_pc, p_src>>
    /\ UNCHANGED match_vars /\ UNCHANGED proc_vars /\ UNCHANGED hist_vars

\* the end of the input: lines 63-64
ParseFinish ==
    /\ p_pc = "loop" /\ p_i = Len(lines)
    /\ yielded' = ParseEnd(ParseState).yielded
    /\ p_pc' = "done"
    /\ UNCHANGED <<lines, p_i, match_criteria, actions, errlog, p_src>>
    /\ UNCHANGED match_vars /\ UNCHANGED proc_vars /\ UNCHANGED hist_vars

NextParse == ParseStep \/ ParseFinish

SpecParse == InitParse /\ [][NextParse]_vars

(***************************************************************************)
(* SpecMatch: lookups, run step by step, of every url of SampleUrls in     *)
(* every RuleSet of at most MaxBlocks blocks taken from the blocks that    *)
(* parse builds from BlockTexts; a RuleSet serves any number of lookups    *)
(***************************************************************************)
BT_ext ==
    <<"e","x","t"," ","h","t","m","l","\n","a","c","t","i","o","n"," ",
      "o","p","e","n"," ","$","{","F","I","L","E","_","P","A","T","H","}">>
BT_protocol ==
    <<"p","r","o","t","o","c","o","l"," ","f","i","l","e","\n","a","c",
      "t","i","o","n"," ","v","i","e","w"," ","$","{","U","R","L","}"," ",
      "7">>
BT_overflow ==
    <<"u","r","l"," ","a","{","9","9","9","9","9","9","9","9","9","9","9",
      "}","\n","a","c","t","i","o","n"," ","b","a","d">>
BT_reerror ==
    <<"u","r","l"," ","(","\n","a","c","t","i","o","n"," ","w","o","r",
      "s","e">>
BT_fragment_url ==
    <<"h","a","s","_","f","r","a","g","m","e","n","t"," ","t","r","u","e",
      "\n","u","r","l"," ","t",".","t","\n","a","c","t","i","o","n"," ",
      "s","h","o","w"," ","$","{","F","R","A","G","M","E","N","T","}">>
BT_protocol_overflow ==
    <<"p","r","o","t","o","c","o","l"," ","h","t","t","p","\n","u","r",
      "l"," ","a","{","9","9","9","9","9","9","9","9","9","9","9","}",
      "\n","a","c","t","i","o","n"," ","n","e","v","e","r">>
BT_mime ==
    <<"m","i","m","e"," ","i","m","a","g","e","/","*","\n","a","c","t",
      "i","o","n"," ","i","m","g"," ","$","{","F","I","L","E","}">>
BT_path_file ==
    <<"p","a","t","h"," ","/","t","/","*","\n","f","i","l","e"," ","a",
      ".","*","\n","a","c","t","i","o","n"," ","b","o","t","h">>
BT_context ==
    <<"e","x","t"," ","t","x","t","\n","a","c","t","i","o","n"," ","s",
      "h","o","w"," ","$","{","F","I","L","E","}"," ","$","{","F","I",
      "L","E","_","P","A","T","H","}"," ","7","\n","a","c","t","i","o",
      "n"," ","m","a","r","k"," ","$","{","F","R","A","G","M","E","N",
      "T","}"," ","$","{","U","R","L","}">>

BlockTexts ==
    {BT_ext, BT_protocol, BT_overflow, BT_reerror,
     BT_fragment_url, BT_protocol_overflow, BT_mime, BT_path_file, BT_context}

\* the one block of each text of BlockTexts
SampleBlocks == {parse(splitlines(t))[1] : t \in BlockTexts}

U_file ==
    <<"f","i","l","e",":","/","/","/","t","/","a",".","H","T","M","L">>
U_fragment ==
    <<"/","b","/","a","%","2","E","t",".","t","x","t","#","x">>
U_invalid ==
    <<"h","t","t","p",":","/","/","[","x","/","y">>
U_http ==
    <<"H","T","T","P",":","/","/","h","/","p",".","p","n","g","#","f">>
U_ftp ==
    <<"f","t","p",":","/","/","x","/","y">>
U_relative ==
    <<"a",".","h","t","m","l">>

SampleUrls == {U_file, U_fragment, U_invalid, U_http, U_ftp, U_relative}

MatchState ==
    [url |-> m_url, rules |-> m_rules, pc |-> m_pc, i |-> m_i, j |-> m_j,
     out |-> m_out, evaluated |-> m_evaluated, ncrit |-> m_ncrit, raised |-> m_raised]

\* the matcher variables take the fields of st
MatchBecomes(st) ==
    /\ m_url' = st.url /\ m_rules' = st.rules /\ m_pc' = st.pc
    /\ m_i' = st.i /\ m_j' = st.j /\ m_out' = st.out
    /\ m_evaluated' = st.evaluated /\ m_ncrit' = st.ncrit /\ m_raised' = st.raised

InitMatch ==
    /\ m_compiled \in SeqsUpTo(SampleBlocks, MaxBlocks)
    /\ m_url \in SampleUrls
    /\ m_rules = m_compiled
    /\ m_pc = "start" /\ m_i = 0 /\ m_j = 0
    /\ m_out = <<>> /\ m_evaluated = <<>> /\ m_ncrit = 0 /\ m_raised = FALSE
    /\ m_prev = <<>>
    /\ ParseIdle /\ ProcIdle /\ HistIdle

\* lines 144-155: the url is parsed
MatchParseUrl ==
    /\ m_pc = "start"
    /\ MatchBecomes(StepStart(MatchState))
    /\ UNCHANGED <<m_compiled, m_prev>> /\ UNCHANGED parse_vars /\ UNCHANGED proc_vars
    /\ UNCHANGED hist_vars

\* lines 162-163: the next block is evaluated
MatchEvaluate ==
    /\ m_pc = "loop" /\ m_i <= Len(m_rules)
    /\ MatchBecomes(StepEvaluate(MatchState))
    /\ UNCHANGED <<m_compiled, m_prev>> /\ UNCHANGED parse_vars /\ UNCHANGED proc_vars
    /\ UNCHANGED hist_vars

\* line 162: no block is left
MatchExhausted ==
    /\ m_pc = "loop" /\ m_i > Len(m_rules)
    /\ MatchBecomes(StepExhausted(MatchState))
    /\ UNCHANGED <<m_compiled, m_prev>> /\ UNCHANGED parse_vars /\ UNCHANGED proc_vars
    /\ UNCHANGED hist_vars

\* lines 164-165: one action of the matched block is yielded
MatchYield ==
    /\ m_pc = "yield" /\ m_j <= Len(m_rules[m_i].actions)
    /\ MatchBecomes(StepYield(MatchState))
    /\ UNCHANGED <<m_compiled, m_prev>> /\ UNCHANGED parse_vars /\ UNCHANGED proc_vars
    /\ UNCHANGED hist_vars

\* line 166
MatchReturn ==
    /\ m_pc = "yield" /\ m_j > Len(m_rules[m_i].actions)
    /\ MatchBecomes(StepReturn(MatchState))
    /\ UNCHANGED <<m_compiled, m_prev>> /\ UNCHANGED parse_vars /\ UNCHANGED proc_vars
    /\ UNCHANGED hist_vars

\* the caller starts another lookup in the same RuleSet
MatchAgain ==
    /\ m_pc = "done"
    /\ \E u \in SampleUrls : MatchBecomes(MatchStart(u, m_rules))
    /\ m_prev' = m_url
    /\ UNCHANGED m_compiled /\ UNCHANGED parse_vars /\ UNCHANGED proc_vars /\ UNCHANGED hist_vars

NextMatch ==
    \/ MatchParseUrl \/ MatchEvaluate \/ MatchExhausted
    \/ MatchYield \/ MatchReturn \/ MatchAgain

SpecMatch == InitMatch /\ [][NextMatch]_vars

(***************************************************************************)
(* load_open_actions (lines 169-176) and actions_for_url (lines 179-184)   *)
(***************************************************************************)
Absent == [exists |-> FALSE, text |-> <<>>]
Present(text) == [exists |-> TRUE, text |-> text]
Uncached == [cached |-> FALSE, value |-> <<>>]
Cached(value) == [cached |-> TRUE, value |-> value]
NoSpec == [given |-> FALSE, text |-> <<>>]
GivenSpec(text) == [given |-> TRUE, text |-> text]

\* LoadBody letting the FileNotFoundError of open through
LoadBodyUncaught(f) ==
    IF ~f.exists THEN [value |-> <<>>, raised |-> TRUE]
    ELSE [value |-> parse(FileLines(f.text)), raised |-> FALSE]

\* lines 171-176: the body of load_open_actions for the file f
LoadBody(f) ==
    IF ~f.exists THEN [value |-> <<>>, raised |-> FALSE]
    ELSE [value |-> parse(FileLines(f.text)), raised |-> FALSE]

\* load_open_actions without the lru_cache decorator
LoadEveryTime(c, f) ==
    LET r == LoadBody(f)
    IN  [value |-> r.value, cache |-> c, opened |-> TRUE, raised |-> r.raised]

\* line 169: load_open_actions() through lru_cache.  A cached value is
\* returned as it is; otherwise the body runs and its value, unless it
\* raised, is cached.  opened tells that the body ran.
load_open_actions(c, f) ==
    IF c.cached
    THEN [value |-> c.value, cache |-> c, opened |-> FALSE, raised |-> FALSE]
    ELSE LET r == LoadBody(f)
         IN  [value |-> r.value,
              cache |-> IF r.raised THEN c ELSE Cached(r.value),
              opened |-> TRUE, raised |-> r.raised]

\* RulesFor calling load_open_actions before it looks at actions_spec
RulesForLoadsFirst(actions_spec, c, f) ==
    LET l == load_open_actions(c, f)
    IN  IF ~actions_spec.given THEN l
        ELSE [l EXCEPT !.value = parse(splitlines(actions_spec.text))]

\* lines 180-183: the RuleSet actions_for_url looks the url up in
RulesFor(actions_spec, c, f) ==
    IF ~actions_spec.given THEN load_open_actions(c, f)
    ELSE [value |-> parse(splitlines(actions_spec.text)),
          cache |-> c, opened |-> FALSE, raised |-> FALSE]

(***************************************************************************)
(* Spec: a process that looks urls up with and without an explicit rule    *)
(* text, loads and clears the cache, while the configuration file is       *)
(* written and removed                                                     *)
(***************************************************************************)
CT_two_blocks ==
    <<"e","x","t"," ","h","t","m","l","\n","a","c","t","i","o","n"," ",
      "o","p","e","n"," ","$","{","F","I","L","E","_","P","A","T","H","}",
      "\n","\n","p","r","o","t","o","c","o","l"," ","f","i","l","e","\n",
      "a","c","t","i","o","n"," ","v","i","e","w"," ","$","{","U","R","L",
      "}","\n">>
CT_with_bogus ==
    <<"#"," ","c","\n","p","r","o","t","o","c","o","l"," ","f","i","l",
      "e","\n","b","o","g","u","s"," ","f","o","o","\n","a","c","t","i",
      "o","n"," ","v","i","e","w"," ","$","{","F","R","A","G","M","E","N",
      "T","}">>
CT_blank ==
    <<"\n","\n">>

\* the texts the configuration file takes
ConfigTexts == {CT_two_blocks, CT_blank, BT_mime}

\* the texts handed to actions_for_url as actions_spec
SpecTexts == {CT_with_bogus, BT_mime}

\* the urls looked up
ProcUrls == {U_file, U_http, U_invalid}

InitProc ==
    /\ file \in {Absent} \cup {Present(t) : t \in ConfigTexts}
    /\ cache = Uncached
    /\ reads = 0
    /\ loaded_from = Absent
    /\ call = NoCall
    /\ result = <<>>
    /\ ParseIdle /\ MatchIdle /\ HistIdle

\* the bookkeeping of a call of load_open_actions: r.opened tells that its
\* body ran
Loaded(r) ==
    /\ r.opened => reads < MaxReads
    /\ reads' = IF r.opened THEN reads + 1 ELSE reads
    /\ loaded_from' = IF r.opened /\ r.cache.cached THEN file ELSE loaded_from

\* lines 179-184: actions_for_url(url, actions_spec), consumed to its end.
\* The RuleSet of a call without actions_spec is the cached object itself,
\* so the cache holds what the lookup leaves of it.  In the record of the
\* call, hit tells that the cache held a value when the call was made,
\* changed that the file then differed from the file that value was built
\* from; seq alternates from call to call.
actions_for_url(kind, url, actions_spec) ==
    \E r \in {RulesFor(actions_spec, cache, file)} :
    \E m \in {IF r.raised THEN MatchStart(url, <<>>)
              ELSE actions_for_url_from_list(url, r.value)} :
        /\ Loaded(r)
        /\ cache' = IF ~actions_spec.given /\ r.cache.cached
                    THEN Cached(m.rules) ELSE r.cache
        /\ result' = m.out
        /\ call' = [kind |-> kind, url |-> url, spec |-> actions_spec.text,
                    opened |-> r.opened, raised |-> (r.raised \/ m.raised),
                    hit |-> cache.cached,
                    changed |-> (cache.cached /\ file # loaded_from),
                    seq |-> 1 - call.seq]
        /\ UNCHANGED file
        /\ UNCHANGED parse_vars /\ UNCHANGED match_vars /\ UNCHANGED hist_vars

\* a lookup in the default RuleSet
DefaultLookup == \E u \in ProcUrls : actions_for_url("default", u, NoSpec)

\* a lookup in the RuleSet of an explicit rule text
ExplicitLookup ==
    \E u \in ProcUrls, t \in SpecTexts : actions_for_url("explicit", u, GivenSpec(t))

\* load_open_actions() called on its own
Load ==
    /\ \E r \in {load_open_actions(cache, file)} : Loaded(r) /\ cache' = r.cache
    /\ UNCHANGED <<file, call, result>>
    /\ UNCHANGED parse_vars /\ UNCHANGED match_vars /\ UNCHANGED hist_vars

\* load_open_actions.cache_clear(): the explicit reload
CacheClear ==
    /\ cache.cached
    /\ cache' = Uncached
    /\ reads' = 0
    /\ loaded_from' = Absent
    /\ UNCHANGED <<file, call, result>>
    /\ UNCHANGED parse_vars /\ UNCHANGED match_vars /\ UNCHANGED hist_vars

\* the user writes the configuration file
WriteFile ==
    /\ \E t \in ConfigTexts : file' = Present(t)
    /\ file' # file
    /\ UNCHANGED <<cache, reads, loaded_from, call, result>>
    /\ UNCHANGED parse_vars /\ UNCHANGED match_vars /\ UNCHANGED hist_vars

\* the user removes the configuration file
RemoveFile ==
    /\ file.exists
    /\ file' = Absent
    /\ UNCHANGED <<cache, reads, loaded_from, call, result>>
    /\ UNCHANGED parse_vars /\ UNCHANGED match_vars /\ UNCHANGED hist_vars

Init == InitProc

Next ==
    \/ DefaultLookup \/ ExplicitLookup \/ Load \/ CacheClear
    \/ WriteFile \/ RemoveFile

Spec == Init /\ [][Next]_vars

(***************************************************************************)
(* Properties of parse, checked under SpecParse                            *)
(***************************************************************************)
\* what kind of line parse takes a raw line for
IsComment(raw) == startswith(strip(raw), <<"#">>)
IsBlank(raw) == strip(raw) = <<>>
IsShort(raw) == ~IsComment(raw) /\ ~IsBlank(raw) /\ Len(split1(strip(raw))) # 2
KeyOf(raw) == lower(split1(strip(raw))[1])
HasUnknownKey(raw) ==
    /\ ~IsComment(raw) /\ ~IsBlank(raw) /\ ~IsShort(raw)
    /\ KeyOf(raw) \notin (CriterionKeys \cup {K_action})
IsCriterionLine(raw) ==
    ~IsComment(raw) /\ ~IsBlank(raw) /\ ~IsShort(raw) /\ KeyOf(raw) \in CriterionKeys
IsActionLine(raw) ==
    ~IsComment(raw) /\ ~IsBlank(raw) /\ ~IsShort(raw) /\ KeyOf(raw) = K_action
IsMalformedLine(raw) == IsShort(raw) \/ HasUnknownKey(raw)
IsWellFormedLine(raw) == ~IsMalformedLine(raw)

\* the for loop of parse takes its next line in this step
ParseStepTaken == p_pc = "loop" /\ p_i < Len(lines) /\ p_i' = p_i + 1

\* C2: every RuleBlock that parse has yielded has a non-empty criteria list
\* and a non-empty actions list, and a text without any criterion line or
\* without any action line (so also a text of blank lines only) yields no
\* RuleBlock at all.
C2_BlocksNonEmpty ==
    /\ \A k \in 1..Len(yielded) :
          yielded[k].match_criteria # <<>> /\ yielded[k].actions # <<>>
    /\ (p_pc = "done"
        /\ (  (\A k \in 1..Len(lines) : ~IsCriterionLine(lines[k]))
           \/ (\A k \in 1..Len(lines) : ~IsActionLine(lines[k]))))
       => yielded = <<>>

\* a finished parse that yielded a block
C2_Witness == p_pc = "done" /\ Len(yielded) = 1 /\ Len(lines) = MaxLines

\* C4: a line with an unrecognized key or without a remainder leaves the
\* pending criteria, the pending actions and the yielded blocks as they
\* were and the loop goes on; the blocks of a finished parse are those of
\* the same text without such lines.
C4_MalformedSkipped ==
    [][ /\ (ParseStepTaken /\ IsMalformedLine(lines[p_i + 1]))
            => (UNCHANGED <<match_criteria, actions, yielded>> /\ p_pc' = "loop")
        /\ (p_pc' = "done")
            => (yielded' = parse(SelectSeq(lines', IsWellFormedLine))) ]_vars

\* a block built from a criterion and an action with a malformed line
\* between them
C4_Witness ==
    /\ p_pc = "done" /\ yielded # <<>> /\ Len(lines) = 3
    /\ IsCriterionLine(lines[1]) /\ IsMalformedLine(lines[2]) /\ IsActionLine(lines[3])

\* C5 as stated: every non-blank, non-comment line that adds neither a
\* criterion nor an action is reported with log_error, and the loop goes on.
C5_EveryMalformedLogged ==
    [][ (/\ ParseStepTaken
         /\ ~IsBlank(lines[p_i + 1]) /\ ~IsComment(lines[p_i + 1])
         /\ UNCHANGED <<match_criteria, actions>>)
        => (errlog' = Append(errlog, strip(lines[p_i + 1])) /\ p_pc' = "loop") ]_vars

\* C5 amended: a line that splits into a key and a remainder and whose key
\* is not recognized is reported with log_error and skipped; a line that
\* does not split into a key and a remainder is skipped without any report;
\* in both cases the loop goes on with the next line.
C5_UnknownKeyLogged ==
    [][ /\ (ParseStepTaken /\ HasUnknownKey(lines[p_i + 1]))
            => /\ errlog' = Append(errlog, strip(lines[p_i + 1]))
               /\ UNCHANGED <<match_criteria, actions, yielded>>
               /\ p_pc' = "loop"
        /\ (ParseStepTaken /\ IsShort(lines[p_i + 1]))
            => /\ UNCHANGED <<errlog, match_criteria, actions, yielded>>
               /\ p_pc' = "loop" ]_vars

\* a finished parse that met a line with an unknown key and a line without
\* a remainder
C5_Witness ==
    /\ p_pc = "done" /\ Len(errlog) = 1
    /\ \E k \in 1..Len(lines) : IsShort(lines[k])

(***************************************************************************)
(* Properties of the lookup, checked under SpecMatch                       *)
(***************************************************************************)
\* the outcome of criterion k of block b for url u
Outcome(u, b, k) == url_matches_criterion(urlparse(u), u, b.match_criteria[k])

\* every criterion of block b evaluates to true for url u
AllCriteriaTrue(u, b) == \A k \in 1..Len(b.match_criteria) : Outcome(u, b, k) = "True"

\* the blocks of rules whose criteria all succeed for url u
Matching(u, rules) == {i \in 1..Len(rules) : AllCriteriaTrue(u, rules[i])}

FirstMatching(u, rules) ==
    CHOOSE i \in Matching(u, rules) : \A h \in Matching(u, rules) : i <= h

\* the actions of block b, their string arguments expanded for url u
ExpandedActions(u, b) ==
    [k \in 1..Len(b.actions) |-> Invoke(b.actions[k], Env(u, urlparse(u)))]

IsPrefix(a, b) == Len(a) <= Len(b) /\ SubSeq(b, 1, Len(a)) = a

\* C1: when some block has all its criteria succeed, the lookup yields the
\* actions of the one of smallest index and of no other block, and no block
\* after that one is handed to url_matches_criteria.
C1_FirstMatchWins ==
    (urlparse(m_url).ok /\ Matching(m_url, m_compiled) # {})
    => LET f == FirstMatching(m_url, m_compiled)
       IN  /\ \A k \in 1..Len(m_evaluated) : m_evaluated[k] <= f
           /\ IsPrefix(m_out, ExpandedActions(m_url, m_compiled[f]))
           /\ m_pc = "done" => m_out = ExpandedActions(m_url, m_compiled[f])

\* a finished lookup in a RuleSet with two matching blocks
C1_Witness ==
    /\ m_pc = "done" /\ m_out # <<>>
    /\ Cardinality(Matching(m_url, m_compiled)) = 2

\* the index of the first criterion of block b that does not evaluate to
\* true for url u, Len + 1 if there is none
FirstFailing(u, b) ==
    IF AllCriteriaTrue(u, b) THEN Len(b.match_criteria) + 1
    ELSE CHOOSE k \in 1..Len(b.match_criteria) :
            /\ Outcome(u, b, k) # "True"
            /\ \A h \in 1..(k - 1) : Outcome(u, b, h) = "True"

\* block m_i is handed to url_matches_criteria in this step
EvaluateTaken ==
    m_pc = "loop" /\ m_i <= Len(m_rules) /\ m_evaluated' = Append(m_evaluated, m_i)

\* C3: the block under evaluation is taken as matching exactly when all its
\* criteria evaluate to true; the criteria are evaluated in order up to the
\* first that fails or raises and no further; a criterion that raises makes
\* the block not match, nothing reaches the caller and the loop goes on with
\* the next block, so that a finished lookup has yielded the actions of the
\* first fully matching block whenever there is one.
C3_ErrorsAreMismatches ==
    [][ /\ EvaluateTaken
            => LET b == m_rules[m_i]
               IN  /\ (m_pc' = "yield") <=> AllCriteriaTrue(m_url, b)
                   /\ m_ncrit' = IF AllCriteriaTrue(m_url, b)
                                 THEN Len(b.match_criteria)
                                 ELSE FirstFailing(m_url, b)
                   /\ ~m_raised'
                   /\ ~AllCriteriaTrue(m_url, b) => (m_pc' = "loop" /\ m_i' = m_i + 1)
        /\ (m_pc' = "done")
            => /\ ~m_raised'
               /\ (urlparse(m_url').ok /\ Matching(m_url', m_compiled') # {})
                   => m_out' = ExpandedActions(m_url',
                                  m_compiled'[FirstMatching(m_url', m_compiled')]) ]_vars

\* a finished lookup that yielded the actions of a block placed after a
\* block one of whose criteria raised
C3_Witness ==
    /\ m_pc = "done" /\ m_out # <<>> /\ ~m_raised
    /\ \E k \in 1..Len(m_evaluated) :
          LET b == m_compiled[m_evaluated[k]]
          IN  /\ m_evaluated[k] < m_i
              /\ FirstFailing(m_url, b) <= Len(b.match_criteria)
              /\ Outcome(m_url, b, FirstFailing(m_url, b)) = "raise"

\* C6: the RuleSet is at every moment the RuleSet parse built, and what a
\* lookup yields is the expansion for its own url of the templates as parse
\* built them, whatever lookups came before.
C6_RuleSetNotMutated ==
    /\ m_rules = m_compiled
    /\ m_pc \in {"yield", "done"} /\ m_out # <<>>
       => IsPrefix(m_out, ExpandedActions(m_url, m_compiled[m_i]))

\* a lookup that yielded from the block an earlier lookup with another url
\* yielded from, with other arguments
C6_Witness ==
    /\ m_pc = "done" /\ m_out # <<>> /\ m_prev # <<>> /\ m_prev # m_url
    /\ urlparse(m_prev).ok /\ Matching(m_prev, m_compiled) # {}
    /\ FirstMatching(m_prev, m_compiled) = m_i
    /\ m_out # ExpandedActions(m_prev, m_compiled[m_i])

\* C7: a lookup whose url urlparse rejects yields nothing, hands no block
\* to url_matches_criteria and raises nothing; a lookup none of whose blocks
\* has all its criteria succeed yields nothing and raises nothing.
C7_DegradesToEmpty ==
    /\ ~urlparse(m_url).ok => (m_out = <<>> /\ m_evaluated = <<>> /\ ~m_raised)
    /\ (urlparse(m_url).ok /\ Matching(m_url, m_compiled) = {})
       => (m_out = <<>> /\ ~m_raised)

\* a finished lookup of a url that urlparse rejects, in a RuleSet with blocks
C7_Witness ==
    /\ m_pc = "done" /\ ~urlparse(m_url).ok /\ Len(m_compiled) = MaxBlocks

(***************************************************************************)
(* Properties of the cached loader, checked under Spec                     *)
(***************************************************************************)
\* what a lookup of url u in the RuleSet rules has to yield: the expanded
\* actions of the first block whose criteria all succeed, nothing otherwise
Expected(u, rules) ==
    IF urlparse(u).ok /\ Matching(u, rules) # {}
    THEN ExpandedActions(u, rules[FirstMatching(u, rules)])
    ELSE <<>>

\* the RuleSet the text of file f compiles to, the empty one without file
CompiledFrom(f) == IF f.exists THEN parse(FileLines(f.text)) ELSE <<>>

\* this step is a call of actions_for_url without / with actions_spec
DefaultLookupTaken == call'.seq # call.seq /\ call'.kind = "default"
ExplicitLookupTaken == call'.seq # call.seq /\ call'.kind = "explicit"

\* C8: between two cache_clear calls the body of load_open_actions runs at
\* most once; a cached RuleSet is replaced by no step, whatever is done to
\* the file; a lookup without actions_spec runs the body only when nothing
\* is cached, and yields what the cached RuleSet, compiled from the file as
\* it was at that one load (the empty RuleSet for an absent file), gives.
C8_LoadOnce ==
    [][ /\ reads' <= 1
        /\ (cache.cached /\ cache'.cached) => cache' = cache
        /\ DefaultLookupTaken
            => /\ cache'.cached
               /\ cache.cached => (~call'.opened /\ reads' = reads)
               /\ ~cache.cached => (call'.opened /\ reads' = 1 /\ loaded_from' = file)
               /\ cache'.value = CompiledFrom(loaded_from')
               /\ result' = Expected(call'.url, cache'.value) ]_vars

\* a lookup answered from the cache after the file had changed
C8_Witness ==
    /\ call.kind = "default" /\ call.hit /\ call.changed /\ ~call.opened
    /\ cache.cached /\ reads = 1 /\ result # <<>>
    /\ result # Expected(call.url, CompiledFrom(file))

\* C9: with the file absent, the body of load_open_actions gives the empty
\* RuleSet and raises nothing, in a call of its own as in a lookup; every
\* lookup without actions_spec that uses a RuleSet loaded from an absent
\* file yields nothing and raises nothing.
C9_AbsentFileIsEmpty ==
    [][ /\ (~cache.cached /\ ~file.exists /\ reads' = reads + 1)
            => cache' = Cached(<<>>)
        /\ (DefaultLookupTaken /\ ~cache.cached /\ ~file.exists)
            => (cache' = Cached(<<>>) /\ ~call'.raised /\ result' = <<>>)
        /\ (DefaultLookupTaken /\ cache.cached /\ ~loaded_from.exists)
            => (cache' = cache /\ ~call'.raised /\ result' = <<>>) ]_vars

\* a lookup answered from the empty RuleSet of an absent file, while the
\* file exists
C9_Witness ==
    /\ call.kind = "default" /\ call.hit /\ call.changed /\ result = <<>>
    /\ cache.cached /\ ~loaded_from.exists /\ file.exists
    /\ Expected(call.url, CompiledFrom(file)) # <<>>

\* C10: a lookup with actions_spec leaves the cache, the count of loads and
\* the file as they are, does not run the body of load_open_actions, and
\* yields what the url gives in the RuleSet compiled from that text.
C10_ExplicitBypassesCache ==
    [][ ExplicitLookupTaken
        => /\ UNCHANGED <<file, cache, reads, loaded_from>>
           /\ ~call'.opened /\ ~call'.raised
           /\ result' = Expected(call'.url, parse(splitlines(call'.spec))) ]_vars

\* a lookup with actions_spec, made with a RuleSet cached, whose result is
\* not what the cached RuleSet gives
C10_Witness ==
    /\ call.kind = "explicit" /\ call.hit /\ cache.cached
    /\ result # <<>> /\ result # Expected(call.url, cache.value)

(***************************************************************************)
(* SpecConc: two threads of one process.  The loader thread calls          *)
(* load_open_actions() and runs its body one line of the file at a time;   *)
(* the reader thread calls load_open_actions() and looks a url up, step by *)
(* step, in the RuleSet it was handed.  cache_clear calls and changes of   *)
(* the file fall between any two steps.  A file is read as it was when it  *)
(* was opened.                                                             *)
(***************************************************************************)
\* CacheDuringLoad for a body that appends its blocks to the cached value
\* as it goes
CacheFilledInPlace(c, st) == Cached(st.yielded)

\* line 176: the blocks are collected by tuple(parse(f)) into a value local
\* to the call; lru_cache is handed nothing before the body returns
CacheDuringLoad(c, st) == c

\* line 169: lru_cache after the body returned value: a result stored for
\* the key while the body ran is kept, otherwise value is stored
StoreResult(c, value) == IF c.cached THEN c ELSE Cached(value)

InitConc ==
    /\ file \in {Absent} \cup {Present(t) : t \in ConfigTexts}
    /\ cache = Uncached
    /\ reads = 0
    /\ loaded_from = Absent
    /\ call = NoCall
    /\ result = <<>>
    /\ ParseIdle /\ MatchIdle /\ HistIdle

\* lines 169-174: the loader thread calls load_open_actions(), nothing is
\* cached, the body opens the file; FileNotFoundError makes it return ()
LoaderOpen ==
    /\ p_pc = "idle" /\ ~cache.cached /\ reads < MaxReads
    /\ p_src' = file
    /\ lines' = IF file.exists THEN FileLines(file.text) ELSE <<>>
    /\ p_pc' = IF file.exists THEN "loop" ELSE "done"
    /\ reads' = reads + 1
    /\ UNCHANGED <<p_i, match_criteria, actions, yielded, errlog>>
    /\ UNCHANGED <<file, cache, loaded_from, call, result>>
    /\ UNCHANGED match_vars /\ UNCHANGED hist_vars

\* line 176: parse takes the next line of the file
LoaderStep ==
    /\ p_pc = "loop" /\ p_i < Len(lines)
    /\ \E st \in {ParseLine(ParseState, lines[p_i + 1])} :
           /\ match_criteria' = st.match_criteria
           /\ actions' = st.actions
           /\ yielded' = st.yielded
           /\ errlog' = st.errlog
           /\ cache' = CacheDuringLoad(cache, st)
    /\ p_i' = p_i + 1
    /\ UNCHANGED <<lines, p_pc, p_src>>
    /\ UNCHANGED <<file, reads, loaded_from, call, result>>
    /\ UNCHANGED match_vars /\ UNCHANGED hist_vars

\* line 176: the file is exhausted, parse flushes (lines 63-64)
LoaderFlush ==
    /\ p_pc = "loop" /\ p_i = Len(lines)
    /\ \E st \in {ParseEnd(ParseState)} :
           /\ yielded' = st.yielded
           /\ cache' = CacheDuringLoad(cache, st)
    /\ p_pc' = "done"
    /\ UNCHANGED <<lines, p_i, match_criteria, actions, errlog, p_src>>
    /\ UNCHANGED <<file, reads, loaded_from, call, result>>
    /\ UNCHANGED match_vars /\ UNCHANGED hist_vars

\* line 169: the body has returned, lru_cache stores the tuple
LoaderStore ==
    /\ p_pc = "done"
    /\ cache' = StoreResult(cache, yielded)
    /\ loaded_from' = IF cache.cached THEN loaded_from ELSE p_src
    /\ lines' = <<>> /\ p_pc' = "idle" /\ p_i' = 0
    /\ match_criteria' = <<>> /\ actions' = <<>> /\ yielded' = <<>> /\ errlog' = <<>>
    /\ p_src' = Absent
    /\ UNCHANGED <<file, reads, call, result>>
    /\ UNCHANGED match_vars /\ UNCHANGED hist_vars

\* lines 180-184: the reader thread calls actions_for_url(u): it is handed
\* the cached RuleSet, or loads it when nothing is cached, and starts the
\* lookup
ReaderAcquire ==
    /\ m_pc \in {"idle", "done"}
    /\ \E u \in ProcUrls : \E r \in {load_open_actions(cache, file)} :
           /\ Loaded(r)
           /\ cache' = r.cache
           /\ MatchBecomes(MatchStart(u, r.value))
           /\ m_compiled' = r.value
    /\ m_prev' = m_url
    /\ UNCHANGED <<file, call, result>>
    /\ UNCHANGED parse_vars /\ UNCHANGED hist_vars

NextConc ==
    \/ LoaderOpen \/ LoaderStep \/ LoaderFlush \/ LoaderStore
    \/ ReaderAcquire
    \/ MatchParseUrl \/ MatchEvaluate \/ MatchExhausted \/ MatchYield \/ MatchReturn
    \/ CacheClear \/ WriteFile \/ RemoveFile

SpecConc == InitConc /\ [][NextConc]_vars

(***************************************************************************)
(* Properties of the cache under concurrency, checked under SpecConc       *)
(***************************************************************************)
\* the reader thread is handed a RuleSet in this step
ReaderAcquireTaken == m_pc \in {"idle", "done"} /\ m_pc' = "start"

\* C11: the cached RuleSet is at every moment the complete compilation of
\* one version of the file, also while a load is under way; the RuleSet a
\* reader is handed is such a complete compilation and stays as it was
\* handed over for the whole lookup; a cached value is never changed, only
\* dropped by cache_clear or stored as a whole when nothing is cached.
C11_NoTornRuleSet ==
    [][ /\ cache'.cached => cache'.value = CompiledFrom(loaded_from')
        /\ (cache.cached /\ cache'.cached) => cache' = cache
        /\ ReaderAcquireTaken
            => /\ m_rules' = CompiledFrom(loaded_from')
               /\ cache.cached => m_rules' = cache.value
        /\ m_pc' # "idle" => m_rules' = m_compiled'
        /\ (m_pc \notin {"idle", "done"}) => m_rules' = m_rules ]_vars

\* a reader is handed the cached RuleSet of an earlier version of the file
\* while the loader thread, after a cache_clear, has compiled some but not
\* all of the blocks of the present one
C11_Witness ==
    /\ m_pc = "start" /\ cache.cached /\ m_rules = cache.value
    /\ p_pc = "loop" /\ p_src = file /\ file # loaded_from
    /\ yielded # <<>> /\ yielded # CompiledFrom(file)
    /\ m_rules # yielded

(***************************************************************************)
(* SpecCase: actions_for_url(url, actions_spec) called again and again     *)
(* with rule texts of one criterion line and one action line, for every    *)
(* criterion kind, and with urls, each text and url in two letter cases    *)
(***************************************************************************)
KT_ext ==
    <<"e","x","t"," ","h","t","m","l","\n","a","c","t","i","o","n"," ",
      "o","p","e","n">>
KT_ext_recased ==
    <<"E","X","T"," ","H","t","m","l","\n","A","C","T","I","O","N"," ",
      "o","p","e","n">>
KT_protocol ==
    <<"p","r","o","t","o","c","o","l"," ","h","t","t","p",",","f","i",
      "l","e","\n","a","c","t","i","o","n"," ","o","p","e","n">>
KT_protocol_recased ==
    <<"P","r","o","t","o","c","o","l"," ","H","T","T","P",",","F","i",
      "l","e","\n","a","c","t","i","o","n"," ","o","p","e","n">>
KT_path ==
    <<"p","a","t","h"," ","/","t","/","*",".","h","t","m","l","\n","a",
      "c","t","i","o","n"," ","o","p","e","n">>
KT_path_recased ==
    <<"P","A","T","H"," ","/","T","/","*",".","H","t","m","l","\n","a",
      "c","t","i","o","n"," ","o","p","e","n">>
KT_file ==
    <<"f","i","l","e"," ","f","o","o",".","*","\n","a","c","t","i","o",
      "n"," ","o","p","e","n">>
KT_file_recased ==
    <<"F","i","l","e"," ","F","O","O",".","*","\n","a","c","t","i","o",
      "n"," ","o","p","e","n">>
KT_mime ==
    <<"m","i","m","e"," ","t","e","x","t","/","*","\n","a","c","t","i",
      "o","n"," ","o","p","e","n">>
KT_mime_recased ==
    <<"M","I","M","E"," ","T","e","x","t","/","*","\n","a","c","t","i",
      "o","n"," ","o","p","e","n">>
KT_fragment ==
    <<"h","a","s","_","f","r","a","g","m","e","n","t"," ","t","r","u",
      "e","\n","a","c","t","i","o","n"," ","o","p","e","n">>
KT_fragment_recased ==
    <<"H","a","s","_","F","r","a","g","m","e","n","t"," ","T","R","U",
      "E","\n","a","c","t","i","o","n"," ","o","p","e","n">>
KT_url ==
    <<"u","r","l"," ","a",".","h","t","m","l","\n","a","c","t","i","o",
      "n"," ","o","p","e","n">>
KT_url_recased ==
    <<"U","R","L"," ","A",".","h","t","m","l","\n","a","c","t","i","o",
      "n"," ","o","p","e","n">>

CaseTexts ==
    {KT_ext, KT_ext_recased, KT_protocol, KT_protocol_recased,
     KT_path, KT_path_recased, KT_file, KT_file_recased,
     KT_mime, KT_mime_recased, KT_fragment, KT_fragment_recased,
     KT_url, KT_url_recased}

KU_html ==
    <<"f","i","l","e",":","/","/","/","t","/","f","o","o",".","h","t",
      "m","l">>
KU_html_recased ==
    <<"F","I","L","E",":","/","/","/","T","/","F","O","O",".","H","T",
      "M","L">>
KU_compressed ==
    <<"/","t","/","a",".","t","x","t",".","Z","#","x">>
KU_compressed_recased ==
    <<"/","T","/","A",".","T","X","T",".","z","#","X">>
KU_png ==
    <<"h","t","t","p",":","/","/","h","/","a",".","p","n","g">>
KU_png_recased ==
    <<"H","T","T","P",":","/","/","H","/","A",".","P","N","G">>

CaseUrls ==
    {KU_html, KU_html_recased, KU_compressed, KU_compressed_recased, KU_png, KU_png_recased}


InitCase == InitProc /\ file = Absent

\* a lookup of one of the urls in the RuleSet of one of the texts
CaseLookup ==
    \E u \in CaseUrls, t \in CaseTexts : actions_for_url("explicit", u, GivenSpec(t))

NextCase == CaseLookup

SpecCase == InitCase /\ [][NextCase]_vars

(***************************************************************************)
(* Properties of case normalization, checked under SpecCase                *)
(***************************************************************************)
\* the criterion line of a rule text, split into key and remainder
CriterionParts(text) == split1(strip(splitlines(text)[1]))

\* the kind of the criterion of a rule text
CaseKind(text) == lower(CriterionParts(text)[1])

\* a and b differ at most in the case of their letters
SameButCase(a, b) == lower(a) = lower(b)

\* the RuleSet of the text is one block whose criterion has the lower-cased
\* key and the lower-cased remainder, the remainder as written for url
StoredNormalized(text) ==
    LET rules == parse(splitlines(text))
        key == CaseKind(text)
        rest == CriterionParts(text)[2]
    IN  /\ Len(rules) = 1
        /\ rules[1].match_criteria =
              <<[type |-> key, value |-> IF key = K_url THEN rest ELSE lower(rest)]>>

\* this lookup and the one before it differ at most in the letter case of
\* the rule text and of the url, and the criterion is not of kind url
RecasedLookupTaken ==
    /\ ExplicitLookupTaken /\ call.kind = "explicit"
    /\ SameButCase(call.spec, call'.spec) /\ SameButCase(call.url, call'.url)
    /\ CaseKind(call'.spec) # K_url

\* C12 as stated: keys are recognized in any case, values are stored
\* lower-cased except for url, and for every kind other than url a lookup
\* matches exactly when the lookup with the rule text and the url in another
\* letter case matches.
C12_CaseInsensitiveEveryKind ==
    [][ /\ ExplicitLookupTaken => StoredNormalized(call'.spec)
        /\ RecasedLookupTaken => ((result' = <<>>) <=> (result = <<>>)) ]_vars

\* C12 amended: keys are recognized in any case, values are stored
\* lower-cased except for url; for kinds ext, protocol, path, file and
\* has_fragment a lookup matches exactly when the lookup with the rule text
\* and the url in another letter case matches; for kind mime this holds for
\* another letter case of the rule text, the url being the same.
C12_CaseNormalized ==
    [][ /\ ExplicitLookupTaken => StoredNormalized(call'.spec)
        /\ (RecasedLookupTaken /\ (CaseKind(call'.spec) = K_mime => call'.url = call.url))
            => ((result' = <<>>) <=> (result = <<>>)) ]_vars

\* the text with EXT and Html matched the url whose path ends in FOO.HTML
C12_Witness ==
    call.spec = KT_ext_recased /\ call.url = KU_html_recased /\ result # <<>>

(***************************************************************************)
(* SpecDet: one thread that compiles texts with parse, one after the       *)
(* other, and looks urls up in the RuleSet compiled last, in any order.    *)
(* A finished compilation and a finished lookup can be kept aside          *)
(* (h_compile, h_lookup) to be compared with later ones.                   *)
(***************************************************************************)
\* the texts compiled, as sequences of lines
DetTexts ==
    {<<L_ext>>, <<L_action>>, <<L_ext, L_action>>,
     <<L_ext_upper, L_action_upper, L_blank, L_url, L_action>>}

InitDet ==
    /\ ParseIdle /\ MatchIdle /\ ProcIdle /\ HistIdle

\* line 32-34: parse(t) is called
DetCompile ==
    /\ p_pc \in {"idle", "done"} /\ m_pc \in {"idle", "done"}
    /\ \E t \in DetTexts :
          /\ lines' = t
          /\ h_compile' = IF h_compile.set /\ t # h_compile.lines
                          THEN [h_compile EXCEPT !.other = TRUE] ELSE h_compile
    /\ match_criteria' = ParseStart.match_criteria
    /\ actions' = ParseStart.actions
    /\ yielded' = ParseStart.yielded
    /\ errlog' = ParseStart.errlog
    /\ p_pc' = "loop" /\ p_i' = 0
    /\ UNCHANGED <<p_src, h_lookup>>
    /\ UNCHANGED match_vars /\ UNCHANGED proc_vars

\* the finished compilation is kept aside
DetKeepCompile ==
    /\ p_pc = "done"
    /\ h_compile' = [set |-> TRUE, lines |-> lines, rules |-> yielded, other |-> FALSE]
    /\ h_compile' # h_compile
    /\ UNCHANGED h_lookup
    /\ UNCHANGED parse_vars /\ UNCHANGED match_vars /\ UNCHANGED proc_vars

\* line 143: actions_for_url_from_list(u, rules) is called with the RuleSet
\* compiled last
DetLookup ==
    /\ p_pc = "done" /\ m_pc \in {"idle", "done"}
    /\ \E u \in ProcUrls :
          /\ MatchBecomes(MatchStart(u, yielded))
          /\ h_lookup' = IF h_lookup.set /\ (u # h_lookup.url \/ yielded # h_lookup.rules)
                         THEN [h_lookup EXCEPT !.other = TRUE] ELSE h_lookup
    /\ m_compiled' = yielded
    /\ m_prev' = m_url
    /\ UNCHANGED h_compile
    /\ UNCHANGED parse_vars /\ UNCHANGED proc_vars

\* the finished lookup is kept aside
DetKeepLookup ==
    /\ m_pc = "done"
    /\ h_lookup' = [set |-> TRUE, url |-> m_url, rules |-> m_compiled, out |-> m_out,
                    other |-> FALSE]
    /\ h_lookup' # h_lookup
    /\ UNCHANGED h_compile
    /\ UNCHANGED parse_vars /\ UNCHANGED match_vars /\ UNCHANGED proc_vars

NextDet ==
    \/ DetCompile \/ ParseStep \/ ParseFinish \/ DetKeepCompile
    \/ DetLookup \/ MatchParseUrl \/ MatchEvaluate \/ MatchExhausted
    \/ MatchYield \/ MatchReturn \/ DetKeepLookup

SpecDet == InitDet /\ [][NextDet]_vars

(***************************************************************************)
(* Properties of repeated runs, checked under SpecDet                      *)
(***************************************************************************)
\* C13: a finished compilation of the lines of a compilation kept aside has
\* yielded the same blocks in the same order, whatever was compiled or
\* looked up in between; a finished lookup of the url of a lookup kept
\* aside, in an equal RuleSet, has yielded the same sequence of actions.
C13_Deterministic ==
    /\ (p_pc = "done" /\ h_compile.set /\ lines = h_compile.lines)
       => yielded = h_compile.rules
    /\ (m_pc = "done" /\ h_lookup.set /\ m_url = h_lookup.url /\ m_compiled = h_lookup.rules)
       => (m_out = h_lookup.out /\ ~m_raised)

\* lines are compiled a second time, after other lines that left a pending
\* criterion were compiled, and a url is looked up a second time after
\* another lookup
C13_Witness ==
    /\ p_pc = "done" /\ h_compile.set /\ h_compile.other
    /\ lines = h_compile.lines /\ match_criteria # <<>>
    /\ m_pc = "done" /\ h_lookup.set /\ h_lookup.other
    /\ m_url = h_lookup.url /\ m_compiled = h_lookup.rules /\ m_out # <<>>

(***************************************************************************)
(* Properties of the yielded invocations, checked under SpecMatch          *)
(***************************************************************************)
\* the substitution context of url u
Context(u) ==
    LET p == urlparse(u)
    IN  [URL |-> u, FILE_PATH |-> unquote(p.path),
         FILE |-> basename(unquote(p.path)), FRAGMENT |-> p.fragment]

\* invocation inv is template t with its string arguments expanded in
\* context c and its other arguments as they are
IsExpansionOf(inv, t, c) ==
    /\ inv.func = t.func
    /\ Len(inv.args) = Len(t.args)
    /\ \A k \in 1..Len(t.args) :
          IF t.args[k].isstr
          THEN inv.args[k] = StrArg(expandvars(t.args[k].text, c))
          ELSE inv.args[k] = t.args[k]

\* the one block of a text of BlockTexts
BlockOf(text) == parse(splitlines(text))[1]

\* C14: a finished lookup with a matching block has yielded one invocation
\* for each action of the first matching block, in order, each with the
\* name and the number of arguments of its template, string arguments
\* expanded against URL, FILE_PATH (the unquoted path), FILE (its basename)
\* and FRAGMENT, other arguments unchanged; the values keep the letter case
\* and are unquoted: ext html with file:///t/a.HTML gives /t/a.HTML, ext txt
\* with /b/a%2Et.txt#x gives a.t.txt, /b/a.t.txt, 7, then x and the url.
C14_InvocationsExpanded ==
    /\ (m_pc = "done" /\ urlparse(m_url).ok /\ Matching(m_url, m_compiled) # {})
       => LET b == m_compiled[FirstMatching(m_url, m_compiled)]
          IN  /\ Len(m_out) = Len(b.actions)
              /\ \A i \in 1..Len(b.actions) :
                    IsExpansionOf(m_out[i], b.actions[i], Context(m_url))
    /\ (m_pc = "done" /\ m_url = U_file /\ m_compiled # <<>>
        /\ m_compiled[1] = BlockOf(BT_ext))
       => m_out = <<KeyAction(<<"o","p","e","n">>,
                       <<StrArg(<<"/","t","/","a",".","H","T","M","L">>)>>)>>
    /\ (m_pc = "done" /\ m_url = U_fragment /\ m_compiled # <<>>
        /\ m_compiled[1] = BlockOf(BT_context))
       => m_out = <<KeyAction(<<"s","h","o","w">>,
                       <<StrArg(<<"a",".","t",".","t","x","t">>),
                         StrArg(<<"/","b","/","a",".","t",".","t","x","t">>),
                         TypedArg(<<"7">>)>>),
                    KeyAction(<<"m","a","r","k">>,
                       <<StrArg(<<"x">>), StrArg(U_fragment)>>)>>

\* a finished lookup that yielded two invocations, one with an argument
\* that is not a string, from a url with a quoted character in its path
C14_Witness ==
    /\ m_pc = "done" /\ m_url = U_fragment /\ Len(m_out) = 2
    /\ \E k \in 1..Len(m_out[1].args) : ~m_out[1].args[k].isstr
    /\ Len(m_compiled) = MaxBlocks /\ m_i = MaxBlocks

(***************************************************************************)
(* SpecBlocks: parse(lines) run line by line on every text of at most      *)
(* MaxText lines made of boundaries, two criterion lines and three action  *)
(* lines, one of which does not parse                                      *)
(***************************************************************************)
BlockLines == {L_space, L_ext, L_url, L_action, L_action_upper, L_action_bad}

InitBlocks ==
    /\ lines \in SeqsUpTo(BlockLines, MaxText)
    /\ p_pc = "loop" /\ p_i = 0
    /\ match_criteria = <<>> /\ actions = <<>> /\ yielded = <<>> /\ errlog = <<>>
    /\ p_src = Absent
    /\ MatchIdle /\ ProcIdle /\ HistIdle

SpecBlocks == InitBlocks /\ [][NextParse]_vars

(***************************************************************************)
(* Properties of block boundaries, checked under SpecBlocks                *)
(***************************************************************************)
\* the remainder of a line that splits into key and remainder
RestOf(raw) == split1(strip(raw))[2]

\* the runs of ls: the lines before the first blank line, those between two
\* blank lines that follow each other, those after the last
RECURSIVE RunsOf(_)
RunsOf(ls) ==
    IF \A k \in 1..Len(ls) : ~IsBlank(ls[k]) THEN <<ls>>
    ELSE LET b == CHOOSE k \in 1..Len(ls) :
                     IsBlank(ls[k]) /\ \A h \in 1..(k - 1) : ~IsBlank(ls[h])
         IN  <<SubSeq(ls, 1, b - 1)>> \o RunsOf(SubSeq(ls, b + 1, Len(ls)))

\* the criteria of the criterion lines of a run, in line order
RECURSIVE CriteriaOf(_)
CriteriaOf(run) ==
    IF run = <<>> THEN <<>>
    ELSE (IF IsCriterionLine(Head(run))
          THEN <<[type |-> KeyOf(Head(run)),
                  value |-> IF KeyOf(Head(run)) = K_url THEN RestOf(Head(run))
                            ELSE lower(RestOf(Head(run)))]>>
          ELSE <<>>) \o CriteriaOf(Tail(run))

\* the actions of the action lines of a run that parse, in line order
RECURSIVE ActionsOf(_)
ActionsOf(run) ==
    IF run = <<>> THEN <<>>
    ELSE (IF IsActionLine(Head(run)) /\ parse_key_action(RestOf(Head(run))).ok
          THEN <<parse_key_action(RestOf(Head(run))).value>>
          ELSE <<>>) \o ActionsOf(Tail(run))

\* one block for each run that has a criterion and an action, in run order
RECURSIVE BlocksOf(_)
BlocksOf(runs) ==
    IF runs = <<>> THEN <<>>
    ELSE (IF CriteriaOf(Head(runs)) # <<>> /\ ActionsOf(Head(runs)) # <<>>
          THEN <<[match_criteria |-> CriteriaOf(Head(runs)),
                  actions |-> ActionsOf(Head(runs))]>>
          ELSE <<>>) \o BlocksOf(Tail(runs))

\* the runs of the lines consumed so far; the last one is still open
RunsSoFar == RunsOf(SubSeq(lines, 1, p_i))

\* C15: while parse runs, the pending criteria and actions are those of the
\* lines after the most recent blank line, in line order, and are empty
\* right after a blank line; the blocks yielded so far are, in source order,
\* one for each closed run that has both a criterion and a parsed action,
\* holding the criteria and the actions of that run only; at the end the
\* same holds with the last run closed.
C15_BlocksIsolated ==
    /\ p_pc = "loop"
       => /\ match_criteria = CriteriaOf(RunsSoFar[Len(RunsSoFar)])
          /\ actions = ActionsOf(RunsSoFar[Len(RunsSoFar)])
          /\ yielded = BlocksOf(SubSeq(RunsSoFar, 1, Len(RunsSoFar) - 1))
          /\ (p_i > 0 /\ IsBlank(lines[p_i]))
             => (match_criteria = <<>> /\ actions = <<>>)
    /\ p_pc = "done" => yielded = BlocksOf(RunsOf(lines))

\* a finished parse that dropped a run with a criterion and no action and
\* then yielded a block from lines where an action comes between two
\* criteria
C15_Witness ==
    /\ p_pc = "done" /\ Len(lines) = 5 /\ Len(yielded) = 1
    /\ IsCriterionLine(lines[1]) /\ IsBlank(lines[2])
    /\ IsCriterionLine(lines[3]) /\ IsActionLine(lines[4]) /\ IsCriterionLine(lines[5])
    /\ Len(yielded[1].match_criteria) = 2

(***************************************************************************)
(* Properties of comment lines, checked under SpecParse                    *)
(***************************************************************************)
IsNotComment(raw) == ~IsComment(raw)

\* C16: a comment line leaves the pending criteria, the pending actions,
\* the yielded blocks and the log as they were and the loop goes on; the
\* blocks of a finished parse are those of the same text without its
\* comment lines.
C16_CommentsTransparent ==
    [][ /\ (ParseStepTaken /\ IsComment(lines[p_i + 1]))
            => (UNCHANGED <<match_criteria, actions, yielded, errlog>> /\ p_pc' = "loop")
        /\ (p_pc' = "done")
            => (yielded' = parse(SelectSeq(lines', IsNotComment))) ]_vars

\* a block built from a criterion and an action with a comment line between
\* them
C16_Witness ==
    /\ p_pc = "done" /\ Len(yielded) = 1 /\ Len(lines) = 3
    /\ IsCriterionLine(lines[1]) /\ IsComment(lines[2]) /\ IsActionLine(lines[3])
    /\ yielded[1].actions # <<>> /\ yielded[1].match_criteria # <<>>

(***************************************************************************)
(* Properties of the end of the input, checked under SpecParse             *)
(***************************************************************************)
\* the input is exhausted in this step
ParseFinishTaken == p_pc = "loop" /\ p_pc' = "done"

\* C17: when the input ends, a block is yielded from the pending criteria
\* and actions exactly when both are non-empty, and none when the last line
\* was blank; the blocks of a finished parse are those of the same text
\* followed by one blank line, and by two.
C17_EndIsBoundary ==
    [][ ParseFinishTaken
        => /\ yielded' = IF match_criteria # <<>> /\ actions # <<>>
                         THEN Append(yielded, OpenAction(match_criteria, actions))
                         ELSE yielded
           /\ (lines # <<>> /\ IsBlank(lines[Len(lines)])) => yielded' = yielded
           /\ yielded' = parse(lines \o <<L_blank>>)
           /\ yielded' = parse(lines \o <<L_space, L_blank>>)
           /\ yielded' = BlankLine(BlankLine(ParseState)).yielded ]_vars

\* a finished parse of a text that ends with an action line and yielded a
\* block
C17_Witness ==
    /\ p_pc = "done" /\ Len(yielded) = 1 /\ Len(lines) = MaxLines
    /\ IsActionLine(lines[Len(lines)])

(***************************************************************************)
(* SpecCrit: lookups, run step by step, of urls with and without scheme    *)
(* and fragment in RuleSets of one block with one protocol or one          *)
(* has_fragment criterion                                                  *)
(***************************************************************************)
PT_http_https ==
    <<"p","r","o","t","o","c","o","l"," ","h","t","t","p",",","h","t",
      "t","p","s","\n","a","c","t","i","o","n"," ","o","p","e","n">>
PT_ftp_file ==
    <<"p","r","o","t","o","c","o","l"," "," ","f","t","p"," ",","," ",
      "f","i","l","e","\n","a","c","t","i","o","n"," ","o","p","e","n">>
PT_upper ==
    <<"P","R","O","T","O","C","O","L"," ","H","T","T","P","\n","a","c",
      "t","i","o","n"," ","o","p","e","n">>
PT_near ==
    <<"p","r","o","t","o","c","o","l"," ","f","i","l",",","f","i","l",
      "e","s",",","h","t","\n","a","c","t","i","o","n"," ","o","p","e",
      "n">>
FT_true ==
    <<"h","a","s","_","f","r","a","g","m","e","n","t"," ","t","r","u",
      "e","\n","a","c","t","i","o","n"," ","o","p","e","n">>
FT_false ==
    <<"h","a","s","_","f","r","a","g","m","e","n","t"," ","f","a","l",
      "s","e","\n","a","c","t","i","o","n"," ","o","p","e","n">>
FT_yes ==
    <<"H","A","S","_","F","R","A","G","M","E","N","T"," ","Y","e","s",
      "\n","a","c","t","i","o","n"," ","o","p","e","n">>
FT_no ==
    <<"h","a","s","_","f","r","a","g","m","e","n","t"," ","n","o","\n",
      "a","c","t","i","o","n"," ","o","p","e","n">>

CritTexts ==
    {PT_http_https, PT_ftp_file, PT_upper, PT_near, FT_true, FT_false, FT_yes, FT_no}

CU_plain ==
    <<"f","i","l","e",":","/","/","/","a",".","t","x","t">>
CU_empty_fragment ==
    <<"/","a",".","t","x","t","#">>
CU_https ==
    <<"h","t","t","p","s",":","/","/","h","/","a","#","t","o","p">>

CritUrls == {U_ftp, U_relative, U_http, U_fragment, CU_plain, CU_empty_fragment, CU_https}

InitCrit ==
    /\ m_compiled \in {parse(splitlines(t)) : t \in CritTexts}
    /\ m_url \in CritUrls
    /\ m_rules = m_compiled
    /\ m_pc = "start" /\ m_i = 0 /\ m_j = 0
    /\ m_out = <<>> /\ m_evaluated = <<>> /\ m_ncrit = 0 /\ m_raised = FALSE
    /\ m_prev = <<>>
    /\ ParseIdle /\ ProcIdle /\ HistIdle

\* the caller starts another lookup in the same RuleSet
CritAgain ==
    /\ m_pc = "done"
    /\ \E u \in CritUrls : MatchBecomes(MatchStart(u, m_rules))
    /\ m_prev' = m_url
    /\ UNCHANGED m_compiled /\ UNCHANGED parse_vars /\ UNCHANGED proc_vars
    /\ UNCHANGED hist_vars

NextCrit ==
    \/ MatchParseUrl \/ MatchEvaluate \/ MatchExhausted
    \/ MatchYield \/ MatchReturn \/ CritAgain

SpecCrit == InitCrit /\ [][NextCrit]_vars

(***************************************************************************)
(* Properties of single criteria, checked under SpecCrit                   *)
(***************************************************************************)
\* the one criterion of the one block of the RuleSet
SoleCriterion == m_compiled[1].match_criteria[1]

\* the lookup is finished and found the block matching
LookupMatched == m_pc = "done" /\ m_out # <<>>

\* the scheme of url u in lower case, file when u has none
SchemeOf(u) ==
    IF urlparse(u).scheme = <<>> THEN K_file ELSE lower(urlparse(u).scheme)

\* the names of a comma-separated value, trimmed
Names(value) ==
    {strip(splitOn(value, ",")[k]) : k \in 1..Len(splitOn(value, ","))}

\* C18: a finished lookup in a RuleSet of one protocol criterion matched
\* exactly when the scheme of the url, lower-cased, file for a url without
\* scheme, is one of the trimmed names of the value; a url without scheme
\* matches exactly when file is one of the names; protocol http,https does
\* not match ftp://x/y.
C18_ProtocolMatches ==
    /\ (m_pc = "done" /\ SoleCriterion.type = K_protocol)
       => /\ LookupMatched <=> (SchemeOf(m_url) \in Names(SoleCriterion.value))
          /\ urlparse(m_url).scheme = <<>>
             => (LookupMatched <=> (K_file \in Names(SoleCriterion.value)))
    /\ (m_pc = "done" /\ m_compiled = parse(splitlines(PT_http_https)))
       => (LookupMatched <=> m_url \in {U_http, CU_https})
    /\ (m_pc = "done" /\ m_compiled = parse(splitlines(PT_ftp_file)))
       => (LookupMatched <=> m_url \in CritUrls \ {U_http, CU_https})
    /\ (m_pc = "done" /\ m_compiled = parse(splitlines(PT_near))) => ~LookupMatched

\* a finished lookup of a url without scheme that matched a protocol
\* criterion listing file after another name and spaces
C18_Witness ==
    /\ LookupMatched /\ m_url = U_relative
    /\ m_compiled = parse(splitlines(PT_ftp_file))

\* the url has a fragment that is not empty
HasFragment(u) == \E k \in 1..Len(u) : u[k] = "#" /\ k < Len(u)

\* C19: a finished lookup in a RuleSet of one has_fragment criterion matched
\* exactly when the boolean reading of the value equals whether the url has
\* a non-empty fragment: true and Yes match exactly the urls with a
\* non-empty fragment, false and no exactly the urls with no fragment or an
\* empty one; has_fragment true does not match file:///a.txt.
C19_HasFragmentMatches ==
    /\ (m_pc = "done" /\ SoleCriterion.type = K_has_fragment)
       => (LookupMatched <=> (to_bool(SoleCriterion.value) = HasFragment(m_url)))
    /\ (m_pc = "done" /\ m_compiled \in {parse(splitlines(FT_true)), parse(splitlines(FT_yes))})
       => (LookupMatched <=> m_url \in {U_http, U_fragment, CU_https})
    /\ (m_pc = "done" /\ m_compiled \in {parse(splitlines(FT_false)), parse(splitlines(FT_no))})
       => (LookupMatched <=> m_url \in {U_ftp, U_relative, CU_plain, CU_empty_fragment})

\* a finished lookup of a url with an empty fragment that matched
\* has_fragment false, after a lookup of file:///a.txt
C19_Witness ==
    /\ LookupMatched /\ m_url = CU_empty_fragment /\ m_prev = CU_plain
    /\ m_compiled = parse(splitlines(FT_false))

====
